---------------------------- MODULE Spec2Model ----------------------------
(***************************************************************************)
(* distributed-prime-numbers: an orchestrator process that partitions      *)
(* [0, max_prime) into ranges, creates a named shared-memory segment and   *)
(* a named semaphore, launches one helper process per range with           *)
(* std::system, waits on the semaphore and prints the primes found; and    *)
(* the helper process that tests one range and posts to the semaphore.     *)
(*                                                                         *)
(* Indices are 0-based as in the source: arrays are functions on 0..n-1.   *)
(* Command-line arguments are sequences of one-character strings.          *)
(***************************************************************************)
EXTENDS Integers, Sequences, FiniteSets, TLC

\* ------------------------------------------------------------------ bounds
\* Largest <number of primes> argument enumerated.
MaxPrimeCount == 10
\* Largest value of the build constant CPU_COUNT enumerated.
MaxCpuCount == 2
\* Largest number of wrong answers of is_prime (composites that pass every
\* drawn witness) in one run.
MaxWrongAnswers == 1
\* Largest max_prime enumerated by the stand-alone partitioning specification.
MaxBound == 14
\* Largest <number of primes> and largest number of true table entries
\* enumerated by the stand-alone printing specification.
MaxPrintPrimes == 4
MaxTrueEntries == 3
\* Most runs of the orchestrator one after the other, and the largest
\* <number of primes> of their command line.
MaxRuns == 2
MaxRerunPrimes == 3
\* Width in bits of std::uintmax_t in the specification of the arithmetic
\* functions (64 in the build; the products of mod_pow wrap at any width).
WordBits == 4

VARIABLES
    \* named OS resources (shared_memory.hpp:22-24)
    store_exists,   \* the name kSharedMemorySegmentName exists on the host
    sem_exists,     \* the name kSemaphoreName exists on the host
    sem_count,      \* the value of the named semaphore
    prime_tables,   \* the shm_vector<bool> array "prime-tables" in the segment
    \* the orchestrator (distributed-prime-numbers.cpp main)
    pc,             \* its position
    argv,           \* argv[1..argc-1]
    cpu_count,      \* CPU_COUNT of the build (config.hpp)
    prime_count,    \* prime_count (decremented while printing)
    process_count,
    max_prime,
    range_sizes,
    range_offsets,
    oi,             \* the loop variable i of the loop the orchestrator is in
    oj,             \* the loop variable j of the printing loop
    output,         \* what has been written to std::cout
    exit_code,      \* exit status of the orchestrator, -1 while it runs
    \* the helper processes (distributed-prime-numbers-helper.cpp main)
    w_pc,           \* position of helper process k
    w_argv,         \* its argv[1..argc-1]
    w_range_id,
    w_offset,
    w_size,
    w_i,            \* its loop variable i
    w_status,       \* its exit status, -1 while it runs
    \* observations
    pre_store,      \* the segment name existed before the run
    pre_sem,        \* the semaphore name existed before the run
    requested,      \* the parsed <number of primes>, 0 when none
    launched,       \* number of std::system calls made
    waited,         \* number of n_done.wait() calls completed
    w_posts,        \* number of n_done.post() calls made by helper k
    w_written,      \* the set of <<vector, index>> helper k has assigned
    wrong_answers,  \* number of is_prime results that were wrong so far
    answered,       \* the set of <<integer, answer>> the helpers' is_prime gave
    runs,           \* number of times the orchestrator has been started
    \* a second orchestrator started on the same host
    pc2,            \* its position
    exit_code2,     \* its exit status, -1 while it runs
    \* one call of a function on its own
    call            \* its arguments, its progress and its result

os_vars   == <<store_exists, sem_exists, sem_count, prime_tables>>
main_vars == <<pc, argv, cpu_count, prime_count, process_count, max_prime,
               range_sizes, range_offsets, oi, oj, output, exit_code>>
w_vars    == <<w_pc, w_argv, w_range_id, w_offset, w_size, w_i, w_status>>
obs_vars  == <<pre_store, pre_sem, requested, launched, waited, w_posts,
               w_written, wrong_answers, answered>>
aux_vars  == <<runs, pc2, exit_code2, call>>
vars      == <<os_vars, main_vars, w_vars, obs_vars, aux_vars>>

\* --------------------------------------------------------------- utilities
Min(a, b) == IF a < b THEN a ELSE b

EmptyArray == [k \in {} |-> 0]

ArrayLen(a) == Cardinality(DOMAIN a)

DigitChars == <<"0", "1", "2", "3", "4", "5", "6", "7", "8", "9">>

IsDigit(c) == \E d \in 1..10 : DigitChars[d] = c

DigitValue(c) == (CHOOSE d \in 1..10 : DigitChars[d] = c) - 1

\* printf("%zu") / printf("%ju"): the decimal digits of an unsigned value.
RECURSIVE FormatUnsigned(_)
FormatUnsigned(n) ==
    IF n < 10 THEN <<DigitChars[n + 1]>>
    ELSE FormatUnsigned(n \div 10) \o <<DigitChars[(n % 10) + 1]>>

\* The digits of s from position p on: <<value, position after the last digit>>.
RECURSIVE ScanDigits(_, _, _)
ScanDigits(s, p, acc) ==
    IF p <= Len(s) /\ IsDigit(s[p])
    THEN ScanDigits(s, p + 1, acc * 10 + DigitValue(s[p]))
    ELSE <<acc, p>>

RECURSIVE SkipSpace(_, _)
SkipSpace(s, p) ==
    IF p <= Len(s) /\ s[p] = " " THEN SkipSpace(s, p + 1) ELSE p

\* std::strtoimax(s, &end, 10): leading white space, an optional sign, then
\* digits.  end = 0 stands for end == s (no conversion was performed).
strtoimax(s) ==
    LET p0  == SkipSpace(s, 1)
        neg == p0 <= Len(s) /\ s[p0] = "-"
        p1  == IF p0 <= Len(s) /\ s[p0] \in {"-", "+"} THEN p0 + 1 ELSE p0
        d   == ScanDigits(s, p1, 0)
    IN  IF d[2] = p1 THEN [value |-> 0, end |-> 0]
        ELSE [value |-> IF neg THEN 0 - d[1] ELSE d[1], end |-> d[2] - 1]


\* ---------------------------------------------------------- pure functions
\* max_prime (Rosser's theorem): prime_count * (log(prime_count) +
\* log(log(prime_count))) converted to an unsigned integer, tabulated for the
\* prime counts the model enumerates (IEEE double evaluation, truncated).
RosserTable == <<14, 18, 22, 26, 31, 35, 40, 45, 50, 55>>

MaxPrime(n) == IF n < 6 THEN 12 ELSE RosserTable[n - 5]

\* std::div(max_prime, process_count)
range_div(a, b) == [quot |-> a \div b, rem |-> a % b]

\* Mutants of range_size: the remainder is dropped; the remainder is spread
\* over the first ranges, one each.
range_size_even(i, d) == d.quot

range_size_spread(i, d) == d.quot + (IF i < d.rem THEN 1 ELSE 0)

range_size(i, d) == d.quot + (IF i = 0 THEN d.rem ELSE 0)

\* Mutant of range_offset: the remainder held by range 0 is forgotten.
range_offset_no_rem(i, d) == i * range_size(i, d)

range_offset(i, d) == i * range_size(i, d) + (IF i > 0 THEN d.rem ELSE 0)

\* mod_pow on values far below the width of std::uintmax_t.
RECURSIVE mod_pow(_, _, _)
mod_pow(x, y, n) ==
    IF y = 0 THEN 1
    ELSE LET z == mod_pow(x, y \div 2, n)
         IN  IF y % 2 = 0 THEN (z * z) % n ELSE (x * z * z) % n

\* std::uintmax_t of WordBits bits: its largest value, and the value an
\* unsigned product is reduced to.
UintMax == 2 ^ WordBits - 1

wrap(v) == v % (UintMax + 1)

\* mod_pow in unsigned arithmetic of WordBits bits: z * z and x * z * z are
\* computed in std::uintmax_t, then reduced by n.
RECURSIVE mod_pow_uintmax(_, _, _)
mod_pow_uintmax(x, y, n) ==
    IF y = 0 THEN 1
    ELSE LET z == mod_pow_uintmax(x, y \div 2, n)
         IN  IF y % 2 = 0 THEN wrap(z * z) % n
             ELSE wrap(wrap(x * z) * z) % n

\* The exact values of the products mod_pow forms on the way, before they
\* are stored in std::uintmax_t.
RECURSIVE mod_pow_products(_, _, _)
mod_pow_products(x, y, n) ==
    IF y = 0 THEN {}
    ELSE LET z == mod_pow_uintmax(x, y \div 2, n)
         IN  mod_pow_products(x, y \div 2, n)
                 \cup (IF y % 2 = 0 THEN {z * z}
                       ELSE {x * z, wrap(x * z) * z})

\* The bitwise operators of std::size_t (taken to be WordBits bits wide, as
\* std::uintmax_t).
RECURSIVE bit_and(_, _)
bit_and(a, b) ==
    IF a = 0 \/ b = 0 THEN 0
    ELSE (a % 2) * (b % 2) + 2 * bit_and(a \div 2, b \div 2)

bit_not(a) == UintMax - a

\* align<Alignment>(n): n + (Alignment - 1) & ~(Alignment - 1)
align(Alignment, n) ==
    bit_and(wrap(n + wrap(Alignment - 1)), bit_not(wrap(Alignment - 1)))

\* #define PRIMALITY_TEST_COUNT 100
PRIMALITY_TEST_COUNT == 100

\* One trial of is_prime with witness a passes.
FermatPasses(a, n) == mod_pow(a, n - 1, n) = 1

\* The values is_prime(n) can return over all draws of its witnesses from
\* [1, n - 1]: true when every drawn witness passes, false as soon as a
\* drawn witness fails.
is_prime_results(n) ==
    IF n < 2 THEN {FALSE}
    ELSE {b \in BOOLEAN :
            \/ b /\ \E a \in 1..(n - 1) : FermatPasses(a, n)
            \/ ~b /\ \E a \in 1..(n - 1) : ~FermatPasses(a, n)}

\* n is a prime number (trial division): what is_prime is meant to answer.
IsPrimeNumber(n) == n >= 2 /\ \A d \in 2..(n - 1) : n % d # 0

\* ------------------------------------------------------- named resources
\* Mutant of create_only: open_or_create, which succeeds on an existing name.
open_or_create(exists) == TRUE

\* boost::interprocess::create_only succeeds iff the name does not exist.
create_only(exists) == ~exists

\* boost::interprocess::open_only succeeds iff the name exists.
open_only(exists) == exists

\* Mutant of clean_up: the segment is removed only after a semaphore was
\* found to remove.
clean_up_if_found ==
    /\ sem_exists' = FALSE
    /\ store_exists' = (store_exists /\ ~sem_exists)

\* Mutant of clean_up: the segment name is left behind.
clean_up_semaphore_only ==
    /\ sem_exists' = FALSE
    /\ store_exists' = store_exists

\* clean_up(): remove both names (registered with std::atexit).
clean_up ==
    /\ sem_exists' = FALSE
    /\ store_exists' = FALSE

\* The orchestrator returns from main with the given status; the atexit
\* handler runs.
Return(code) ==
    /\ pc' = "done"
    /\ exit_code' = code
    /\ clean_up

\* ----------------------------------------------------------- orchestrator
Procs == 0..(MaxPrimeCount - 1)

\* Mutant of no_primes: the early return of line 80 is missing.
no_primes_never(count) == FALSE

\* if (prime_count == 0) return 0;
no_primes(count) == count = 0

\* Mutant of too_many: one process more than primes is let through.
too_many_off_by_one(processes, primes) == processes > primes + 1

\* if (process_count > prime_count)
too_many(processes, primes) == processes > primes

\* Lines 48-90 of main: the exit status when main returns early (-1 when it
\* goes on), and the counts it goes on with.
Validate(args, cpu) ==
    IF Len(args) + 1 # 3 THEN [exit |-> 1, primes |-> 0, procs |-> 0]
    ELSE
      LET p == strtoimax(args[1])
          q == strtoimax(args[2])
          n == IF q.value = 0 THEN Min(cpu, p.value) ELSE q.value
      IN  IF p.end = 0 THEN [exit |-> 1, primes |-> 0, procs |-> 0]
          ELSE IF p.value < 0 THEN [exit |-> 1, primes |-> 0, procs |-> 0]
          ELSE IF q.end = 0 THEN [exit |-> 1, primes |-> 0, procs |-> 0]
          ELSE IF q.value < 0 THEN [exit |-> 1, primes |-> 0, procs |-> 0]
          ELSE IF no_primes(p.value)
          THEN [exit |-> 0, primes |-> 0, procs |-> 0]
          ELSE IF too_many(n, p.value)
          THEN [exit |-> 1, primes |-> p.value, procs |-> n]
          ELSE [exit |-> -1, primes |-> p.value, procs |-> n]

\* main, lines 45-98: register clean_up, validate, compute max_prime.
MainStart ==
    /\ pc = "main"
    /\ LET v == Validate(argv, cpu_count)
       IN  /\ requested' = v.primes
           /\ IF v.exit = -1
              THEN /\ prime_count' = v.primes
                   /\ process_count' = v.procs
                   /\ max_prime' = MaxPrime(v.primes)
                   /\ pc' = "create_segment"
                   /\ UNCHANGED <<store_exists, sem_exists, exit_code>>
              ELSE /\ Return(v.exit)
                   /\ UNCHANGED <<prime_count, process_count, max_prime>>
    /\ UNCHANGED <<sem_count, prime_tables, argv, cpu_count, range_sizes,
                   range_offsets, oi, oj, output, w_vars, pre_store, pre_sem,
                   launched, waited, w_posts, w_written, wrong_answers,
                   answered>>
    /\ UNCHANGED aux_vars

\* The ranges computed by the loop of lines 122-126.
RangeSizes(bound, n) ==
    [i \in 0..(n - 1) |-> range_size(i, range_div(bound, n))]

RangeOffsets(bound, n) ==
    [i \in 0..(n - 1) |-> range_offset(i, range_div(bound, n))]

\* Mutant of NewTables: every vector gets the size of the last range.
NewTablesLastSize(sizes) ==
    [i \in DOMAIN sizes |->
       [j \in 0..(sizes[ArrayLen(sizes) - 1] - 1) |-> FALSE]]

\* prime_tables[i].assign(range_sizes[i], false)
NewTables(sizes) ==
    [i \in DOMAIN sizes |-> [j \in 0..(sizes[i] - 1) |-> FALSE]]

\* main, lines 105-126: create the segment and the tables.
CreateSegment ==
    /\ pc = "create_segment"
    /\ IF create_only(store_exists)
       THEN /\ store_exists' = TRUE
            /\ range_sizes' = RangeSizes(max_prime, process_count)
            /\ range_offsets' = RangeOffsets(max_prime, process_count)
            /\ prime_tables' = NewTables(range_sizes')
            /\ pc' = "create_semaphore"
            /\ UNCHANGED <<sem_exists, exit_code>>
       ELSE /\ Return(1)
            /\ UNCHANGED <<range_sizes, range_offsets, prime_tables>>
    /\ UNCHANGED <<sem_count, argv, cpu_count, prime_count, process_count,
                   max_prime, oi, oj, output, w_vars, obs_vars>>
    /\ UNCHANGED aux_vars

\* main, line 129: create the semaphore with value 0.
CreateSemaphore ==
    /\ pc = "create_semaphore"
    /\ IF create_only(sem_exists)
       THEN /\ sem_exists' = TRUE
            /\ sem_count' = 0
            /\ oi' = 0
            /\ pc' = IF 0 < process_count THEN "spawn" ELSE "wait"
            /\ UNCHANGED <<store_exists, exit_code>>
       ELSE /\ Return(1)
            /\ UNCHANGED <<sem_count, oi>>
    /\ UNCHANGED <<prime_tables, argv, cpu_count, prime_count, process_count,
                   max_prime, range_sizes, range_offsets, oj, output, w_vars,
                   obs_vars>>
    /\ UNCHANGED aux_vars

\* The arguments of the command of line 134.
Command(i) ==
    <<FormatUnsigned(i), FormatUnsigned(range_offsets[i]),
      FormatUnsigned(range_sizes[i])>>

\* main, lines 132-141: std::system starts the command; the helper process
\* runs, or the command cannot be started (status 127).
SpawnWorker ==
    /\ pc = "spawn"
    /\ pc' = "system"
    /\ launched' = launched + 1
    /\ \E started \in BOOLEAN :
         IF started
         THEN /\ w_pc' = [w_pc EXCEPT ![oi] = "main"]
              /\ w_argv' = [w_argv EXCEPT ![oi] = Command(oi)]
              /\ UNCHANGED w_status
         ELSE /\ w_pc' = [w_pc EXCEPT ![oi] = "exited"]
              /\ w_status' = [w_status EXCEPT ![oi] = 127]
              /\ UNCHANGED w_argv
    /\ UNCHANGED <<os_vars, argv, cpu_count, prime_count, process_count,
                   max_prime, range_sizes, range_offsets, oi, oj, output,
                   exit_code, w_range_id, w_offset, w_size, w_i, pre_store,
                   pre_sem, requested, waited, w_posts, w_written,
                   wrong_answers,
                   answered>>
    /\ UNCHANGED aux_vars

\* std::system returns once the command has terminated.
system_returned(k) == w_pc[k] = "exited"

\* Mutant of system_failed: the status of the command is ignored.
system_failed_never(status) == FALSE

\* if (std::system(command)) throw
system_failed(status) == status # 0

\* main, lines 141-143 and 165-169: the status of the command.
SystemReturn ==
    /\ pc = "system"
    /\ system_returned(oi)
    /\ IF system_failed(w_status[oi])
       THEN /\ Return(1)
            /\ UNCHANGED oi
       ELSE /\ IF oi + 1 < process_count
               THEN pc' = "spawn" /\ oi' = oi + 1
               ELSE pc' = "wait" /\ oi' = 0
            /\ UNCHANGED <<store_exists, sem_exists, exit_code>>
    /\ UNCHANGED <<sem_count, prime_tables, argv, cpu_count, prime_count,
                   process_count, max_prime, range_sizes, range_offsets, oj,
                   output, w_vars, obs_vars>>
    /\ UNCHANGED aux_vars

\* Mutant of wait_loop: one wait too few.
wait_loop_short(i) == i + 1 < process_count

\* Mutant of wait_loop: one wait too many.
wait_loop_long(i) == i < process_count + 1

\* The condition of the loop of line 146.
wait_loop(i) == i < process_count

\* main, lines 146-147: one n_done.wait().
AwaitWorker ==
    /\ pc = "wait"
    /\ IF wait_loop(oi)
       THEN /\ sem_count > 0
            /\ sem_count' = sem_count - 1
            /\ waited' = waited + 1
            /\ oi' = oi + 1
            /\ UNCHANGED <<pc, oj>>
       ELSE /\ pc' = "print"
            /\ oi' = 0
            /\ oj' = 0
            /\ UNCHANGED <<sem_count, waited>>
    /\ UNCHANGED <<store_exists, sem_exists, prime_tables, argv, cpu_count,
                   prime_count, process_count, max_prime, range_sizes,
                   range_offsets, output, exit_code, w_vars, pre_store,
                   pre_sem, requested, launched, w_posts, w_written,
                   wrong_answers,
                   answered>>
    /\ UNCHANGED aux_vars

\* Mutant of last_prime: the count is compared before it is decremented.
last_prime_late(remaining) == remaining + 1 = 0

\* if (--prime_count == 0) goto exit;
last_prime(remaining) == remaining = 0

\* Mutant of emitted: the index is printed without the offset of its range.
emitted_index(offset, j) == j

\* Line 154: the integer printed for a true entry.
emitted(offset, j) == offset + j

\* main, lines 150-163 and 171: one step of the printing loops.
PrintPrimes ==
    /\ pc = "print"
    /\ IF ~(oi < process_count)
       THEN \* exit: segment.destroy_ptr(prime_tables); return 0
            /\ prime_tables' = EmptyArray
            /\ Return(0)
            /\ UNCHANGED <<oi, oj, output, prime_count>>
       ELSE IF ~(oj < ArrayLen(prime_tables[oi]))
       THEN /\ oi' = oi + 1
            /\ oj' = 0
            /\ UNCHANGED <<os_vars, pc, exit_code, output, prime_count>>
       ELSE IF prime_tables[oi][oj]
       THEN /\ output' = Append(output, emitted(range_offsets[oi], oj))
            /\ prime_count' = prime_count - 1
            /\ IF last_prime(prime_count')
               THEN /\ prime_tables' = EmptyArray
                    /\ Return(0)
                    /\ UNCHANGED <<oi, oj>>
               ELSE /\ oj' = oj + 1
                    /\ UNCHANGED <<os_vars, pc, exit_code, oi>>
       ELSE /\ oj' = oj + 1
            /\ UNCHANGED <<os_vars, pc, exit_code, oi, output, prime_count>>
    /\ UNCHANGED <<sem_count, argv, cpu_count, process_count, max_prime,
                   range_sizes, range_offsets, w_vars, obs_vars>>
    /\ UNCHANGED aux_vars

\* ----------------------------------------------------------------- helper
\* Lines 39-76 of the helper's main: the exit status when it ends before the
\* loop (-1 when it goes on; 134 is the abort of an exception that nothing
\* catches), and the parsed arguments.
HelperValidate(args, store, sem) ==
    IF Len(args) + 1 # 4
    THEN [exit |-> 1, range_id |-> 0, offset |-> 0, size |-> 0]
    ELSE
      LET r == strtoimax(args[1])
          o == strtoimax(args[2])
          z == strtoimax(args[3])
          bad == [exit |-> 1, range_id |-> 0, offset |-> 0, size |-> 0]
      IN  IF r.end = 0 \/ r.value < 0 THEN bad
          ELSE IF o.end = 0 \/ o.value < 0 THEN bad
          ELSE IF z.end = 0 \/ z.value < 0 THEN bad
          ELSE IF ~open_only(store) \/ ~open_only(sem)
          THEN [exit |-> 134, range_id |-> 0, offset |-> 0, size |-> 0]
          ELSE [exit |-> -1, range_id |-> r.value, offset |-> o.value,
                size |-> z.value]

\* helper main, lines 38-78: parse the arguments, open the segment and the
\* semaphore, find the tables.
HelperMain(k) ==
    /\ w_pc[k] = "main"
    /\ LET v == HelperValidate(w_argv[k], store_exists, sem_exists)
       IN  IF v.exit = -1
           THEN /\ w_pc' = [w_pc EXCEPT ![k] = "loop"]
                /\ w_range_id' = [w_range_id EXCEPT ![k] = v.range_id]
                /\ w_offset' = [w_offset EXCEPT ![k] = v.offset]
                /\ w_size' = [w_size EXCEPT ![k] = v.size]
                /\ w_i' = [w_i EXCEPT ![k] = 0]
                /\ UNCHANGED w_status
           ELSE /\ w_pc' = [w_pc EXCEPT ![k] = "exited"]
                /\ w_status' = [w_status EXCEPT ![k] = v.exit]
                /\ UNCHANGED <<w_range_id, w_offset, w_size, w_i>>
    /\ UNCHANGED <<os_vars, main_vars, w_argv, obs_vars>>
    /\ UNCHANGED aux_vars

\* Mutant of test_loop: the last entry is not tested.
test_loop_short(i, size) == i + 1 < size

\* The condition of the loop of line 81.
test_loop(i, size) == i < size

\* The integer tested by iteration i.
tested(offset, i) == offset + i

\* Mutant of assign_entry: the range id is ignored.
assign_entry_first(tables, range_id, i, value) ==
    [tables EXCEPT ![0][i] = value]

\* prime_tables[range_id][i] = value
assign_entry(tables, range_id, i, value) ==
    [tables EXCEPT ![range_id][i] = value]

\* helper main, lines 81-82: one iteration of the loop.
HelperTest(k) ==
    /\ w_pc[k] = "loop"
    /\ test_loop(w_i[k], w_size[k])
    /\ LET n == tested(w_offset[k], w_i[k])
       IN  \E value \in is_prime_results(n) :
             LET wrong == value # IsPrimeNumber(n)
             IN  /\ wrong => wrong_answers < MaxWrongAnswers
                 /\ wrong_answers' = wrong_answers + (IF wrong THEN 1 ELSE 0)
                 /\ prime_tables' =
                      assign_entry(prime_tables, w_range_id[k], w_i[k], value)
    /\ w_written' = [w_written EXCEPT ![k] = @ \cup {<<w_range_id[k], w_i[k]>>}]
    /\ answered' = answered \cup
         {<<tested(w_offset[k], w_i[k]), prime_tables'[w_range_id[k]][w_i[k]]>>}
    /\ w_i' = [w_i EXCEPT ![k] = @ + 1]
    /\ UNCHANGED <<store_exists, sem_exists, sem_count, main_vars, w_pc,
                   w_argv, w_range_id, w_offset, w_size, w_status, pre_store,
                   pre_sem, requested, launched, waited, w_posts>>
    /\ UNCHANGED aux_vars

\* Mutant of post: the semaphore is incremented twice.
post_twice(count) == count + 2

\* n_done.post()
post(count) == count + 1

\* helper main, lines 85-87: n_done.post(); return 0.
HelperPost(k) ==
    /\ w_pc[k] = "loop"
    /\ ~test_loop(w_i[k], w_size[k])
    /\ sem_count' = post(sem_count)
    /\ w_posts' = [w_posts EXCEPT ![k] = @ + 1]
    /\ w_pc' = [w_pc EXCEPT ![k] = "exited"]
    /\ w_status' = [w_status EXCEPT ![k] = 0]
    /\ UNCHANGED <<store_exists, sem_exists, prime_tables, main_vars, w_argv,
                   w_range_id, w_offset, w_size, w_i, pre_store, pre_sem,
                   requested, launched, waited, w_written, wrong_answers,
                   answered>>
    /\ UNCHANGED aux_vars

\* ---------------------------------------------------------- specifications
\* Argument strings: the decimal numbers 0..n, a negative number, text that
\* is no number, a number followed by text, and the empty string.
ArgStrings(n) ==
    {FormatUnsigned(m) : m \in 0..n}
        \cup {<<"-", "1">>, <<"x">>, <<"2", "x">>, <<>>}

\* Command lines of the orchestrator: any number of arguments up to three.
ArgvChoices ==
    {<<>>}
        \cup {<<a>> : a \in {<<"1">>}}
        \cup {<<a, b>> : a \in ArgStrings(MaxPrimeCount),
                         b \in ArgStrings(MaxPrimeCount + 1)}
        \cup {<<a, b, c>> : a \in {<<"1">>}, b \in {<<"1">>}, c \in {<<"1">>}}

NoHelpers ==
    /\ w_pc = [k \in Procs |-> "none"]
    /\ w_argv = [k \in Procs |-> <<>>]
    /\ w_range_id = [k \in Procs |-> 0]
    /\ w_offset = [k \in Procs |-> 0]
    /\ w_size = [k \in Procs |-> 0]
    /\ w_i = [k \in Procs |-> 0]
    /\ w_status = [k \in Procs |-> -1]
    /\ w_posts = [k \in Procs |-> 0]
    /\ w_written = [k \in Procs |-> {}]

\* The orchestrator is started on a host where either name may have been
\* left behind by an earlier run.
Init ==
    /\ store_exists \in BOOLEAN
    /\ sem_exists \in BOOLEAN
    /\ pre_store = store_exists
    /\ pre_sem = sem_exists
    /\ sem_count = 0
    /\ prime_tables = EmptyArray
    /\ pc = "main"
    /\ argv \in ArgvChoices
    /\ cpu_count \in 1..MaxCpuCount
    /\ prime_count = 0
    /\ process_count = 0
    /\ max_prime = 0
    /\ range_sizes = EmptyArray
    /\ range_offsets = EmptyArray
    /\ oi = 0
    /\ oj = 0
    /\ output = <<>>
    /\ exit_code = -1
    /\ requested = 0
    /\ launched = 0
    /\ waited = 0
    /\ wrong_answers = 0
    /\ NoHelpers
    /\ answered = {}
    /\ runs = 1
    /\ pc2 = "idle"
    /\ exit_code2 = -1
    /\ call = [fn |-> "none"]

Next ==
    \/ MainStart
    \/ CreateSegment
    \/ CreateSemaphore
    \/ SpawnWorker
    \/ SystemReturn
    \/ AwaitWorker
    \/ PrintPrimes
    \/ \E k \in Procs : HelperMain(k)
    \/ \E k \in Procs : HelperTest(k)
    \/ \E k \in Procs : HelperPost(k)

Spec == Init /\ [][Next]_vars

\* The helper run on its own: the segment is as an orchestrator created it
\* for some request (or its name is gone), the semaphore name exists or not,
\* and the command line is the one of some range or a damaged one.
HelperArgvChoices(r, o, z) ==
    LET R == FormatUnsigned(r)
        O == FormatUnsigned(o)
        Z == FormatUnsigned(z)
        Bad == {<<"-", "1">>, <<"x">>, <<>>}
    IN  {<<R, O, Z>>, <<R, O>>, <<R, O, Z, Z>>}
            \cup {<<b, O, Z>> : b \in Bad}
            \cup {<<R, b, Z>> : b \in Bad}
            \cup {<<R, O, b>> : b \in Bad}

InitHelper ==
    /\ store_exists \in BOOLEAN
    /\ sem_exists \in BOOLEAN
    /\ pre_store = store_exists
    /\ pre_sem = sem_exists
    /\ sem_count = 0
    /\ \E p \in 1..MaxPrimeCount : \E q \in 1..p : \E r \in 0..(q - 1) :
         LET sizes == RangeSizes(MaxPrime(p), q)
             offsets == RangeOffsets(MaxPrime(p), q)
         IN  /\ prime_tables =
                  IF store_exists THEN NewTables(sizes) ELSE EmptyArray
             /\ w_argv \in
                  {[k \in Procs |-> IF k = 0 THEN a ELSE <<>>] :
                     a \in HelperArgvChoices(r, offsets[r], sizes[r])}
    /\ w_pc = [k \in Procs |-> IF k = 0 THEN "main" ELSE "none"]
    /\ w_range_id = [k \in Procs |-> 0]
    /\ w_offset = [k \in Procs |-> 0]
    /\ w_size = [k \in Procs |-> 0]
    /\ w_i = [k \in Procs |-> 0]
    /\ w_status = [k \in Procs |-> -1]
    /\ w_posts = [k \in Procs |-> 0]
    /\ w_written = [k \in Procs |-> {}]
    /\ pc = "absent"
    /\ argv = <<>>
    /\ cpu_count = 1
    /\ prime_count = 0
    /\ process_count = 0
    /\ max_prime = 0
    /\ range_sizes = EmptyArray
    /\ range_offsets = EmptyArray
    /\ oi = 0
    /\ oj = 0
    /\ output = <<>>
    /\ exit_code = -1
    /\ requested = 0
    /\ launched = 0
    /\ waited = 0
    /\ wrong_answers = 0
    /\ answered = {}
    /\ runs = 1
    /\ pc2 = "idle"
    /\ exit_code2 = -1
    /\ call = [fn |-> "none"]

NextHelper ==
    \/ \E k \in Procs : HelperMain(k)
    \/ \E k \in Procs : HelperTest(k)
    \/ \E k \in Procs : HelperPost(k)

SpecHelper == InitHelper /\ [][NextHelper]_vars

\* The partitioning on its own: lines 98-126 of main for every max_prime up
\* to MaxBound and every process_count in [1, max_prime].
ComputeRanges ==
    /\ pc = "partition"
    /\ range_sizes' = RangeSizes(max_prime, process_count)
    /\ range_offsets' = RangeOffsets(max_prime, process_count)
    /\ pc' = "partitioned"
    /\ UNCHANGED <<os_vars, argv, cpu_count, prime_count, process_count,
                   max_prime, oi, oj, output, exit_code, w_vars, obs_vars>>
    /\ UNCHANGED aux_vars

InitPartition ==
    /\ max_prime \in 1..MaxBound
    /\ process_count \in 1..max_prime
    /\ pc = "partition"
    /\ store_exists = FALSE
    /\ sem_exists = FALSE
    /\ pre_store = FALSE
    /\ pre_sem = FALSE
    /\ sem_count = 0
    /\ prime_tables = EmptyArray
    /\ argv = <<>>
    /\ cpu_count = 1
    /\ prime_count = 0
    /\ range_sizes = EmptyArray
    /\ range_offsets = EmptyArray
    /\ oi = 0
    /\ oj = 0
    /\ output = <<>>
    /\ exit_code = -1
    /\ requested = 0
    /\ launched = 0
    /\ waited = 0
    /\ wrong_answers = 0
    /\ NoHelpers
    /\ answered = {}
    /\ runs = 1
    /\ pc2 = "idle"
    /\ exit_code2 = -1
    /\ call = [fn |-> "none"]

SpecPartition == InitPartition /\ [][ComputeRanges]_vars

\* The printing loops on their own: the orchestrator has completed its waits
\* (lines 146-147) and the tables hold any answers, the integers of `trues`
\* marked true.
TablesOf(sizes, offsets, trues) ==
    [i \in DOMAIN sizes |->
       [j \in 0..(sizes[i] - 1) |-> (offsets[i] + j) \in trues]]

InitPrint ==
    /\ \E p \in 1..MaxPrintPrimes : \E q \in 1..p :
       \E trues \in {t \in SUBSET (0..(MaxPrime(p) - 1)) :
                       Cardinality(t) <= MaxTrueEntries} :
         LET sizes == RangeSizes(MaxPrime(p), q)
             offsets == RangeOffsets(MaxPrime(p), q)
         IN  /\ argv = <<FormatUnsigned(p), FormatUnsigned(q)>>
             /\ requested = p
             /\ prime_count = p
             /\ process_count = q
             /\ max_prime = MaxPrime(p)
             /\ range_sizes = sizes
             /\ range_offsets = offsets
             /\ prime_tables = TablesOf(sizes, offsets, trues)
             /\ answered = {<<m, m \in trues>> : m \in 0..(MaxPrime(p) - 1)}
             /\ wrong_answers =
                  Cardinality({m \in 0..(MaxPrime(p) - 1) :
                                 (m \in trues) # IsPrimeNumber(m)})
             /\ launched = q
             /\ waited = q
             /\ w_pc = [k \in Procs |-> IF k < q THEN "exited" ELSE "none"]
             /\ w_argv = [k \in Procs |->
                            IF k < q
                            THEN <<FormatUnsigned(k),
                                   FormatUnsigned(offsets[k]),
                                   FormatUnsigned(sizes[k])>>
                            ELSE <<>>]
             /\ w_range_id = [k \in Procs |-> IF k < q THEN k ELSE 0]
             /\ w_offset = [k \in Procs |-> IF k < q THEN offsets[k] ELSE 0]
             /\ w_size = [k \in Procs |-> IF k < q THEN sizes[k] ELSE 0]
             /\ w_i = [k \in Procs |-> IF k < q THEN sizes[k] ELSE 0]
             /\ w_status = [k \in Procs |-> IF k < q THEN 0 ELSE -1]
             /\ w_posts = [k \in Procs |-> IF k < q THEN 1 ELSE 0]
             /\ w_written = [k \in Procs |->
                               IF k < q
                               THEN {<<k, j>> : j \in 0..(sizes[k] - 1)}
                               ELSE {}]
    /\ pc = "print"
    /\ oi = 0
    /\ oj = 0
    /\ output = <<>>
    /\ exit_code = -1
    /\ cpu_count = 1
    /\ store_exists = TRUE
    /\ sem_exists = TRUE
    /\ pre_store = FALSE
    /\ pre_sem = FALSE
    /\ sem_count = 0
    /\ runs = 1
    /\ pc2 = "idle"
    /\ exit_code2 = -1
    /\ call = [fn |-> "none"]

SpecPrint == InitPrint /\ [][PrintPrimes]_vars

\* The orchestrator run again with the same command line once the run before
\* has exited: the names are as that run's clean_up left them.
Restart ==
    /\ pc = "done"
    /\ runs < MaxRuns
    /\ runs' = runs + 1
    /\ pc' = "main"
    /\ pre_store' = store_exists
    /\ pre_sem' = sem_exists
    /\ sem_count' = 0
    /\ prime_tables' = EmptyArray
    /\ prime_count' = 0
    /\ process_count' = 0
    /\ max_prime' = 0
    /\ range_sizes' = EmptyArray
    /\ range_offsets' = EmptyArray
    /\ oi' = 0
    /\ oj' = 0
    /\ output' = <<>>
    /\ exit_code' = -1
    /\ requested' = 0
    /\ launched' = 0
    /\ waited' = 0
    /\ wrong_answers' = 0
    /\ w_pc' = [k \in Procs |-> "none"]
    /\ w_argv' = [k \in Procs |-> <<>>]
    /\ w_range_id' = [k \in Procs |-> 0]
    /\ w_offset' = [k \in Procs |-> 0]
    /\ w_size' = [k \in Procs |-> 0]
    /\ w_i' = [k \in Procs |-> 0]
    /\ w_status' = [k \in Procs |-> -1]
    /\ w_posts' = [k \in Procs |-> 0]
    /\ w_written' = [k \in Procs |-> {}]
    /\ answered' = {}
    /\ UNCHANGED <<store_exists, sem_exists, argv, cpu_count, pc2, exit_code2,
                   call>>

RerunArgv ==
    {<<a, b>> : a \in ArgStrings(MaxRerunPrimes),
                b \in ArgStrings(MaxRerunPrimes + 1)}

InitRerun ==
    /\ Init
    /\ argv \in RerunArgv

NextRerun ==
    \/ Next
    \/ Restart

SpecRerun == InitRerun /\ [][NextRerun]_vars

\* The arithmetic functions of the helper called on their own, with any
\* arguments of WordBits bits (n != 0 for mod_pow, its stated precondition).
rest_vars == <<os_vars, main_vars, w_vars, obs_vars, runs, pc2, exit_code2>>

\* mod_pow(x, y, n) returns.
ModPowReturn ==
    /\ call.fn = "mod_pow"
    /\ call.state = "called"
    /\ call' = [call EXCEPT
                  !.state = "returned",
                  !.result = mod_pow_uintmax(call.x, call.y, call.n),
                  !.products = mod_pow_products(call.x, call.y, call.n)]
    /\ UNCHANGED rest_vars

\* align<Alignment>(n) returns.
AlignReturn ==
    /\ call.fn = "align"
    /\ call.state = "called"
    /\ call' = [call EXCEPT !.state = "returned",
                            !.result = align(call.Alignment, call.n)]
    /\ UNCHANGED rest_vars

\* is_prime(n), lines 119-121: n < 2 returns false, otherwise the loop starts.
IsPrimeEnter ==
    /\ call.fn = "is_prime"
    /\ call.state = "called"
    /\ call' = IF call.n < 2
               THEN [call EXCEPT !.state = "returned", !.result = FALSE]
               ELSE [call EXCEPT !.state = "loop", !.i = 0]
    /\ UNCHANGED rest_vars

\* is_prime(n), lines 122-125: one trial with a witness drawn from [1, n - 1].
IsPrimeTrial ==
    /\ call.fn = "is_prime"
    /\ call.state = "loop"
    /\ call.i < PRIMALITY_TEST_COUNT
    /\ \E a \in 1..(call.n - 1) :
         call' = IF mod_pow_uintmax(a, call.n - 1, call.n) # 1
                 THEN [call EXCEPT !.state = "returned", !.result = FALSE,
                                   !.a = a, !.drawn = @ + 1]
                 ELSE [call EXCEPT !.i = @ + 1, !.a = a, !.drawn = @ + 1]
    /\ UNCHANGED rest_vars

\* is_prime(n), line 126: every trial has passed.
IsPrimeReturn ==
    /\ call.fn = "is_prime"
    /\ call.state = "loop"
    /\ call.i = PRIMALITY_TEST_COUNT
    /\ call' = [call EXCEPT !.state = "returned", !.result = TRUE]
    /\ UNCHANGED rest_vars

InitCalls ==
    /\ call \in
         {[fn |-> "mod_pow", state |-> "called", x |-> x, y |-> y, n |-> n,
           result |-> 0, products |-> {}] :
            x \in 0..UintMax, y \in 0..UintMax, n \in 1..UintMax}
         \cup
         {[fn |-> "is_prime", state |-> "called", n |-> n, i |-> 0, a |-> 0,
           drawn |-> 0, result |-> FALSE] : n \in 0..UintMax}
         \cup
         {[fn |-> "align", state |-> "called", Alignment |-> 2 ^ b, n |-> n,
           result |-> 0] : b \in 0..(WordBits - 1), n \in 0..UintMax}
    /\ pc = "absent"
    /\ store_exists = FALSE
    /\ sem_exists = FALSE
    /\ pre_store = FALSE
    /\ pre_sem = FALSE
    /\ sem_count = 0
    /\ prime_tables = EmptyArray
    /\ argv = <<>>
    /\ cpu_count = 1
    /\ prime_count = 0
    /\ process_count = 0
    /\ max_prime = 0
    /\ range_sizes = EmptyArray
    /\ range_offsets = EmptyArray
    /\ oi = 0
    /\ oj = 0
    /\ output = <<>>
    /\ exit_code = -1
    /\ requested = 0
    /\ launched = 0
    /\ waited = 0
    /\ wrong_answers = 0
    /\ NoHelpers
    /\ answered = {}
    /\ runs = 1
    /\ pc2 = "idle"
    /\ exit_code2 = -1

NextCalls ==
    \/ ModPowReturn
    \/ AlignReturn
    \/ IsPrimeEnter
    \/ IsPrimeTrial
    \/ IsPrimeReturn

SpecCalls == InitCalls /\ [][NextCalls]_vars

\* A second instance of the orchestrator, started with valid counts while
\* the first holds the segment name. Its main registers clean_up (line 46),
\* fails to create the segment (line 113, create_only), catches the exception
\* (lines 165-169), returns 1, and its clean_up runs.
first_vars == <<sem_count, prime_tables, main_vars, w_vars, obs_vars, runs,
                call>>

\* Second instance, lines 45-113 and 165-169: creation is attempted and fails.
SecondCreate ==
    /\ pc2 = "idle"
    /\ pc \in {"create_semaphore", "spawn", "system", "wait", "print"}
    /\ ~create_only(store_exists)
    /\ pc2' = "failed"
    /\ exit_code2' = 1
    /\ UNCHANGED <<store_exists, sem_exists, first_vars>>

\* Second instance, lines 169 and 186-189: return 1; clean_up removes the
\* names.
SecondExit ==
    /\ pc2 = "failed"
    /\ pc2' = "done"
    /\ clean_up
    /\ UNCHANGED <<exit_code2, first_vars>>

InitTwo ==
    /\ Init
    /\ ~store_exists
    /\ ~sem_exists
    /\ argv \in RerunArgv

NextTwo ==
    \/ Next
    \/ SecondCreate
    \/ SecondExit

SpecTwo == InitTwo /\ [][NextTwo]_vars

\* A single instance under fair scheduling: the orchestrator and every
\* launched helper keep taking steps while they can (each is a process the
\* operating system schedules; is_prime and the helper's loop are bounded).
InitLive ==
    /\ Init
    /\ argv \in RerunArgv

SpecLive == InitLive /\ [][Next]_vars /\ WF_vars(Next)

\* ------------------------------------- thread-based program (prime-numbers)
\* prime-numbers.cpp computes in one process what the orchestrator and its
\* helpers compute together. `answers` is the set of integers is_prime
\* answers true for.

\* Line 82: the bound.
thread_max_prime(n) == IF n < 6 THEN 12 ELSE RosserTable[n - 5]

\* Line 86: std::div(max_prime, thread_count).
thread_range_div(bound, threads) ==
    [quot |-> bound \div threads, rem |-> bound % threads]

\* Lines 93-94.
thread_range_size(i, d) == d.quot + (IF i = 0 THEN d.rem ELSE 0)

thread_range_offset(i, d) ==
    i * thread_range_size(i, d) + (IF i > 0 THEN d.rem ELSE 0)

\* Lines 157-164: the table of one range.
test_primes_in_range(offset, size, answers) ==
    [i \in 0..(size - 1) |-> (offset + i) \in answers]

\* Lines 100-109: the printing loops from position (i, j) with `remaining`
\* primes still to print.
RECURSIVE thread_print(_, _, _, _, _)
thread_print(tables, offsets, i, j, remaining) ==
    IF ~(i < ArrayLen(tables)) THEN <<>>
    ELSE IF ~(j < ArrayLen(tables[i]))
    THEN thread_print(tables, offsets, i + 1, 0, remaining)
    ELSE IF tables[i][j]
    THEN <<offsets[i] + j>>
             \o (IF remaining - 1 = 0 THEN <<>>
                 ELSE thread_print(tables, offsets, i, j + 1, remaining - 1))
    ELSE thread_print(tables, offsets, i, j + 1, remaining)

\* Lines 82-109: what the program prints for valid counts.
thread_output(primes, threads, answers) ==
    LET d == thread_range_div(thread_max_prime(primes), threads)
        offsets == [i \in 0..(threads - 1) |-> thread_range_offset(i, d)]
        tables == [i \in 0..(threads - 1) |->
                     test_primes_in_range(offsets[i], thread_range_size(i, d),
                                          answers)]
    IN  thread_print(tables, offsets, 0, 0, primes)

\* ------------------------------------------------------------------ claims
RECURSIVE NthPrime(_)
NthPrime(k) ==
    IF k = 1 THEN 2
    ELSE LET p == NthPrime(k - 1)
         IN  CHOOSE q \in (p + 1)..(2 * p) :
               /\ IsPrimeNumber(q)
               /\ \A m \in (p + 1)..(q - 1) : ~IsPrimeNumber(m)

FirstPrimes(n) == [k \in 1..n |-> NthPrime(k)]

\* The orchestrator has returned 0 after printing.
Succeeded == pc = "done" /\ exit_code = 0 /\ requested >= 1

\* The entries helper k is to assign: [0, size) of vector k.
OwnEntries(k) == {<<k, j>> : j \in 0..(range_sizes[k] - 1)}

\* C1: when is_prime gave no wrong answer and max_prime exceeds the
\* requested-th prime, a run that succeeds has printed exactly the first
\* <number of primes> primes in ascending order, whatever the process count.
C1_FirstPrimes ==
    (/\ Succeeded
     /\ wrong_answers = 0
     /\ MaxPrime(requested) > NthPrime(requested))
        => output = FirstPrimes(requested)

C1_Witness ==
    /\ Succeeded
    /\ wrong_answers = 0
    /\ requested = 10
    /\ process_count = 3
    /\ output = <<2, 3, 5, 7, 11, 13, 17, 19, 23, 29>>

\* C2: while the orchestrator is in the printing loops (the only place that
\* reads the tables) it has completed process_count waits, and every helper
\* has assigned all its entries, posted once and exited, every post consumed.
C2_ReadAfterWaits ==
    pc = "print" =>
        /\ waited = process_count
        /\ sem_count = 0
        /\ \A k \in 0..(process_count - 1) :
             /\ w_pc[k] = "exited"
             /\ w_posts[k] = 1
             /\ w_written[k] = OwnEntries(k)

C2_Witness ==
    /\ pc = "print"
    /\ process_count = 3
    /\ oi = 1
    /\ oj = 2
    /\ waited = 3

\* A helper's command line is refused by its argument checks.
HelperArgsRefused(k) ==
    \/ Len(w_argv[k]) # 3
    \/ \E a \in 1..3 :
         strtoimax(w_argv[k][a]).end = 0 \/ strtoimax(w_argv[k][a]).value < 0

\* C3: a helper that exits 0 has posted exactly once, after assigning every
\* entry [0, size) of its vector; a helper posts nowhere else; a helper whose
\* arguments are refused or that cannot open the segment or the semaphore
\* exits nonzero without posting.
C3_PostOnceLast ==
    \A k \in Procs :
        /\ w_posts[k] <= 1
        /\ w_posts[k] = 1 =>
             /\ w_pc[k] = "exited"
             /\ w_status[k] = 0
             /\ w_written[k] = {<<w_range_id[k], j>> : j \in 0..(w_size[k] - 1)}
        /\ (w_pc[k] = "exited" /\ w_status[k] = 0) => w_posts[k] = 1
        /\ (w_pc[k] = "exited"
              /\ (HelperArgsRefused(k) \/ ~pre_store \/ ~pre_sem))
             => (w_status[k] # 0 /\ w_posts[k] = 0 /\ w_written[k] = {})

C3_Witness ==
    /\ w_pc[0] = "exited"
    /\ w_status[0] = 0
    /\ w_posts[0] = 1
    /\ w_range_id[0] = 2
    /\ w_size[0] = 10
    /\ Cardinality(w_written[0]) = 10

\* C4: a step of the helper launched for range k assigns exactly one entry
\* j < size of vector k, the answer of is_prime for offset + j, and leaves
\* every other entry of every vector as it was; no vector is assigned by two
\* helpers.
C4_OwnVectorOnly ==
    [][\A k \in Procs :
         (w_pc[k] = "loop" /\ w_i'[k] # w_i[k]) =>
            /\ w_i[k] < range_sizes[k]
            /\ \E value \in BOOLEAN :
                 /\ prime_tables' =
                      [prime_tables EXCEPT ![k][w_i[k]] = value]
                 /\ wrong_answers' = wrong_answers =>
                      value = IsPrimeNumber(range_offsets[k] + w_i[k])
            /\ \A l \in Procs \ {k} :
                 {e[1] : e \in w_written'[k]} \cap {e[1] : e \in w_written'[l]}
                    = {}]_vars

C4_Witness ==
    /\ process_count = 3
    /\ w_pc[1] = "loop"
    /\ w_i[1] = 3
    /\ prime_tables[1][2]
    /\ w_written[0] = OwnEntries(0)

\* C5: once the orchestrator has exited, with either status and on every
\* path, neither name exists.
C5_TeardownOnExit ==
    pc = "done" =>
        /\ exit_code \in {0, 1}
        /\ ~store_exists
        /\ ~sem_exists

C5_Witness ==
    /\ pc = "done"
    /\ exit_code = 1
    /\ ~pre_store
    /\ pre_sem
    /\ max_prime > 0
    /\ ~store_exists
    /\ ~sem_exists

\* A launch has returned a nonzero status.
LaunchFailed == \E k \in Procs : w_pc[k] = "exited" /\ w_status[k] # 0

\* C6: once a launch has returned nonzero, no further helper is launched, no
\* wait is made, nothing is printed, and the orchestrator is still at that
\* launch or has exited with 1 and both names removed.
C6_WorkerFailure ==
    \A k \in Procs :
        (w_pc[k] = "exited" /\ w_status[k] # 0) =>
            /\ launched = k + 1
            /\ waited = 0
            /\ output = <<>>
            /\ pc \in {"system", "done"}
            /\ pc = "done" =>
                 (exit_code = 1 /\ ~store_exists /\ ~sem_exists)

C6_Witness ==
    /\ pc = "done"
    /\ process_count = 3
    /\ w_status[0] = 0
    /\ w_status[1] = 127
    /\ w_pc[2] = "none"
    /\ exit_code = 1

\* The orchestrator has refused its command line.
InputRejected ==
    pc = "done" /\ exit_code = 1 /\ max_prime = 0 /\ Len(argv) = 2

\* C7: when the orchestrator refuses its command line, both names are as
\* they were before the run.
C7_RejectTouchesNothing ==
    InputRejected =>
        /\ store_exists = pre_store
        /\ sem_exists = pre_sem

\* C8: when a name exists already as the orchestrator comes to create the
\* shared state, it launches no helper, prints nothing and exits with 1.
C8_CreationConflict ==
    ((pre_store \/ pre_sem) /\ max_prime > 0) =>
        /\ launched = 0
        /\ output = <<>>
        /\ pc \in {"create_segment", "create_semaphore", "done"}
        /\ pre_store => pc # "create_semaphore"
        /\ pc = "done" => exit_code = 1

C8_Witness ==
    /\ pc = "done"
    /\ pre_store
    /\ ~pre_sem
    /\ max_prime = 31
    /\ exit_code = 1
    /\ launched = 0

RECURSIVE SumTo(_, _)
SumTo(f, n) == IF n = 0 THEN 0 ELSE f[n - 1] + SumTo(f, n - 1)

\* C9: the computed ranges start at 0, each starts where the one before it
\* ends, no size is negative and the sizes add up to max_prime.
C9_Contiguous ==
    pc = "partitioned" =>
        /\ DOMAIN range_sizes = 0..(process_count - 1)
        /\ DOMAIN range_offsets = 0..(process_count - 1)
        /\ range_offsets[0] = 0
        /\ \A i \in 0..(process_count - 2) :
             range_offsets[i + 1] = range_offsets[i] + range_sizes[i]
        /\ \A i \in 0..(process_count - 1) : range_sizes[i] >= 0
        /\ SumTo(range_sizes, process_count) = max_prime

C9_Witness ==
    /\ pc = "partitioned"
    /\ max_prime = 14
    /\ process_count = 4
    /\ range_offsets = [i \in 0..3 |-> IF i = 0 THEN 0 ELSE 3 * i + 2]

\* The ranges have been computed.
Partitioned == DOMAIN range_sizes # {}

\* C10 as stated: any two range sizes differ by at most 1.
C10_SizesWithinOne ==
    Partitioned =>
        \A i, j \in DOMAIN range_sizes : range_sizes[i] - range_sizes[j] <= 1

\* C10 as amended: range 0 holds the quotient plus the whole remainder of
\* max_prime by process_count and every other range holds the quotient, so
\* two sizes differ by at most that remainder.
C10_SizesWithinRemainder ==
    Partitioned =>
        /\ range_sizes[0] =
             (max_prime \div process_count) + (max_prime % process_count)
        /\ \A i \in DOMAIN range_sizes \ {0} :
             range_sizes[i] = max_prime \div process_count
        /\ \A i, j \in DOMAIN range_sizes :
             range_sizes[i] - range_sizes[j] <= max_prime % process_count

C10_Witness ==
    /\ Partitioned
    /\ max_prime = 12
    /\ process_count = 5
    /\ range_sizes[0] = 4
    /\ range_sizes[4] = 2

\* C11: what the orchestrator has printed is strictly increasing at every
\* moment of every run, wrong answers of is_prime included.
C11_OutputIncreasing ==
    \A a, b \in 1..Len(output) : a < b => output[a] < output[b]

C11_Witness ==
    /\ process_count = 3
    /\ wrong_answers = 1
    /\ oi = 2
    /\ Len(output) >= 8
    /\ \E a \in 1..Len(output) : ~IsPrimeNumber(output[a])

\* The integers of the true entries of the tables, by range id and then by
\* index.
RECURSIVE TrueEntries(_, _, _, _)
TrueEntries(tables, offsets, i, j) ==
    IF i >= ArrayLen(tables) THEN <<>>
    ELSE IF j >= ArrayLen(tables[i]) THEN TrueEntries(tables, offsets, i + 1, 0)
    ELSE (IF tables[i][j] THEN <<offsets[i] + j>> ELSE <<>>)
            \o TrueEntries(tables, offsets, i, j + 1)

\* C12: every step of the printing loops leaves printed a prefix of the true
\* entries' integers (range id order, then index order) no longer than the
\* requested count, and the step that leaves the loops has printed
\* min(requested count, number of true entries) of them.
C12_PrintsPrefix ==
    [][pc = "print" =>
         LET all == TrueEntries(prime_tables, range_offsets, 0, 0)
         IN  /\ Len(output') <= requested
             /\ output' = SubSeq(all, 1, Len(output'))
             /\ Len(output') >= Len(output)
             /\ pc' = "done" => Len(output') = Min(requested, Len(all))]_vars

C12_Witness ==
    /\ pc = "done"
    /\ exit_code = 0
    /\ process_count = 3
    /\ requested = 4
    /\ output = <<1, 6, 9>>

\* The command line carries two counts that both convert and are not negative.
CountsGiven ==
    /\ Len(argv) = 2
    /\ strtoimax(argv[1]).end # 0
    /\ strtoimax(argv[2]).end # 0
    /\ strtoimax(argv[1]).value >= 0
    /\ strtoimax(argv[2]).value >= 0

PrimesAsked == strtoimax(argv[1]).value

WorkersAsked == strtoimax(argv[2]).value

\* The run has created neither name, launched no helper and printed nothing.
NothingDone ==
    /\ pc \in {"main", "done"}
    /\ max_prime = 0
    /\ launched = 0
    /\ \A k \in Procs : w_pc[k] = "none"
    /\ output = <<>>
    /\ store_exists => pre_store
    /\ sem_exists => pre_sem

\* C13: asked for 0 primes with any worker count that is not negative, the
\* orchestrator creates no name, launches no helper, prints nothing and exits
\* with 0.
C13_ZeroPrimes ==
    (CountsGiven /\ PrimesAsked = 0) =>
        /\ NothingDone
        /\ pc = "done" => exit_code = 0

C13_Witness ==
    /\ CountsGiven
    /\ PrimesAsked = 0
    /\ WorkersAsked = 3
    /\ pc = "done"
    /\ exit_code = 0
    /\ output = <<>>

\* The worker count after a 0 has been replaced by the default.
WorkersUsed ==
    IF WorkersAsked = 0 THEN Min(cpu_count, PrimesAsked) ELSE WorkersAsked

\* C14: the orchestrator gets as far as creating the shared state only with
\* counts where 1 <= worker count <= prime count (0 workers replaced by
\* min(CPU_COUNT, prime count) first); asked for at least one prime and more
\* workers than primes it creates no name, launches no helper, prints nothing
\* and exits with 1.
C14_WorkerCountRange ==
    /\ ~NothingDone =>
         /\ CountsGiven
         /\ 1 <= WorkersUsed
         /\ WorkersUsed <= PrimesAsked
         /\ process_count = WorkersUsed
    /\ (CountsGiven /\ PrimesAsked >= 1 /\ WorkersAsked > PrimesAsked) =>
         /\ NothingDone
         /\ pc = "done" => exit_code = 1

C14_Witness ==
    /\ CountsGiven
    /\ PrimesAsked = 2
    /\ WorkersAsked = 5
    /\ pc = "done"
    /\ exit_code = 1
    /\ launched = 0

\* A run that took the default worker count and went on to launch helpers.
C14_DefaultReached ==
    /\ CountsGiven
    /\ WorkersAsked = 0
    /\ PrimesAsked = 1
    /\ cpu_count = 2
    /\ process_count = 1
    /\ launched = 1

\* C15: clean_up leaves both names absent and the exit status one of 0 and 1
\* whatever it finds: both names, one of them, none, or the names as its own
\* earlier run left them; a later run therefore never meets a name of the
\* run before.
C15_TeardownIdempotent ==
    /\ runs > 1 => (~pre_store /\ ~pre_sem)
    /\ pc = "done" =>
         /\ ~store_exists
         /\ ~sem_exists
         /\ exit_code \in {0, 1}
         /\ (runs > 1 /\ CountsGiven /\ PrimesAsked >= 1
               /\ WorkersUsed <= PrimesAsked) =>
              (exit_code = 0 <=> ~LaunchFailed)

\* clean_up has run a second time, after a second complete run.
C15_Witness ==
    /\ runs = 2
    /\ pc = "done"
    /\ exit_code = 0
    /\ output = <<2, 3, 5>>
    /\ ~store_exists
    /\ ~sem_exists

\* clean_up has run a second time with neither name present either time.
C15_NeitherExists ==
    /\ runs = 2
    /\ pc = "done"
    /\ exit_code = 1
    /\ max_prime = 0
    /\ ~pre_store
    /\ ~pre_sem

\* clean_up has run after the segment was created and the semaphore was not.
C15_StoreOnly ==
    /\ runs = 1
    /\ pc = "done"
    /\ exit_code = 1
    /\ max_prime > 0
    /\ ~pre_store
    /\ pre_sem

\* base^exponent mod modulus, by repeated multiplication on exact integers.
RECURSIVE RefPowMod(_, _, _)
RefPowMod(x, y, n) ==
    IF y = 0 THEN 1 % n ELSE (x * RefPowMod(x, y - 1, n)) % n

ModPowReturned == call.fn = "mod_pow" /\ call.state = "returned"

\* No product of the call went beyond the width of std::uintmax_t.
ModPowExact == \A p \in call.products : p <= UintMax

\* C16: a call of mod_pow with n >= 1 in which no product overflows returns
\* x^y mod n, a value in [0, n).
C16_ModPowValue ==
    (ModPowReturned /\ ModPowExact) =>
        /\ call.result = RefPowMod(call.x, call.y, call.n)
        /\ call.result >= 0
        /\ call.result < call.n

\* The same for the calls with n >= 2 or y >= 1, which is_prime is limited to.
C16_ModPowValueUsed ==
    (ModPowReturned /\ ModPowExact /\ (call.n >= 2 \/ call.y >= 1)) =>
        /\ call.result = RefPowMod(call.x, call.y, call.n)
        /\ call.result >= 0
        /\ call.result < call.n

IsPrimeReturned == call.fn = "is_prime" /\ call.state = "returned"

\* The parts of the contract of is_prime that concern the order of its steps:
\* no witness for n < 2, false at the first failing witness, true exactly
\* after PRIMALITY_TEST_COUNT passing witnesses.
C17_TrialsFollowed ==
    call.fn = "is_prime" =>
        /\ call.n < 2 => call.drawn = 0
        /\ (IsPrimeReturned /\ call.n < 2) => ~call.result
        /\ call.drawn > 0 => call.a \in 1..(call.n - 1)
        /\ (IsPrimeReturned /\ call.n >= 2 /\ ~call.result) =>
             /\ mod_pow_uintmax(call.a, call.n - 1, call.n) # 1
             /\ call.drawn = call.i + 1
        /\ (IsPrimeReturned /\ call.result) =>
             /\ call.i = PRIMALITY_TEST_COUNT
             /\ call.drawn = PRIMALITY_TEST_COUNT

\* C17: is_prime follows the order of its steps, and for a prime number n it
\* returns true whatever witnesses it draws.
C17_IsPrimeContract ==
    /\ C17_TrialsFollowed
    /\ (IsPrimeReturned /\ IsPrimeNumber(call.n)) => call.result

\* C20: no product formed by mod_pow exceeds 2^WordBits - 1, and the value
\* returned is x^y mod n.
C20_NoOverflow ==
    ModPowReturned =>
        /\ ModPowExact
        /\ (call.n >= 2 \/ call.y >= 1) =>
             call.result = RefPowMod(call.x, call.y, call.n)

\* The integers the helpers' is_prime has answered true for.
AnsweredTrue == {a[1] : a \in {b \in answered : b[2]}}

\* C18: a run of the orchestrator that succeeds has printed exactly what the
\* thread-based program prints for the same prime count, as many threads as
\* helpers, and the answers of is_prime the helpers got.
C18_SameAsThreads ==
    Succeeded =>
        /\ {a[1] : a \in answered} = 0..(max_prime - 1)
        /\ output = thread_output(requested, process_count, AnsweredTrue)

C18_Witness ==
    /\ Succeeded
    /\ requested = 6
    /\ process_count = 4
    /\ wrong_answers = 1
    /\ output = thread_output(6, 4, AnsweredTrue)
    /\ Len(output) = 6

\* The same from tables with any contents, where the loops may run out of
\* true entries (SpecPrint).
C18_SameWithAnyAnswers ==
    pc = "done" =>
        output = thread_output(requested, process_count, AnsweredTrue)

\* Some command of the first instance could not be started at all.
StartFailed == \E k \in Procs : w_pc[k] = "exited" /\ w_status[k] = 127

\* C19: a second instance started while the first holds the names fails with
\* status 1 and leaves the first as it is when run alone: the names stay
\* until the first instance's own clean_up, no helper of the first fails to
\* open them, and the first prints what it was asked for.
C19_FirstUnaffected ==
    /\ pc2 = "done" => exit_code2 = 1
    /\ pc \in {"spawn", "system", "wait", "print"} =>
         (store_exists /\ sem_exists)
    /\ \A k \in Procs : w_status[k] # 134
    /\ (pc = "done" /\ max_prime > 0 /\ ~StartFailed) =>
         /\ exit_code = 0
         /\ Len(output) = requested

\* The part of C19 that concerns the second instance alone.
C19_SecondFails ==
    /\ pc2 \in {"failed", "done"} => exit_code2 = 1
    /\ pc2 = "done" => max_prime > 0

\* The second instance has failed and the first has gone on to its end.
C19_SecondFailed ==
    /\ pc2 = "done"
    /\ exit_code2 = 1
    /\ pc = "done"
    /\ launched >= 1

\* The orchestrator has created the tables and has not reached its exit.
StoreLive == pc \in {"create_semaphore", "spawn", "system", "wait", "print"}

\* C21: from the creation of the tables until the orchestrator's exit,
\* vector i holds exactly range_sizes[i] entries for each of the
\* process_count ranges, whatever the helpers have written so far, and an
\* entry that is true has been written by helper i.
C21_TableShape ==
    StoreLive =>
        /\ ArrayLen(prime_tables) = process_count
        /\ ArrayLen(range_sizes) = process_count
        /\ \A i \in 0..(process_count - 1) :
             /\ ArrayLen(prime_tables[i]) = range_sizes[i]
             /\ \A j \in 0..(range_sizes[i] - 1) :
                  prime_tables[i][j] => <<i, j>> \in w_written[i]

C21_Witness ==
    /\ pc = "system"
    /\ process_count = 2
    /\ range_sizes[0] > range_sizes[1]
    /\ w_pc[1] = "loop"
    /\ w_i[1] = 2
    /\ \E j \in 0..(range_sizes[0] - 1) : prime_tables[0][j]
    /\ \E j \in 0..(range_sizes[1] - 1) : prime_tables[1][j]
    /\ ArrayLen(prime_tables[1]) = range_sizes[1]

\* The posts made so far by the helpers of ranges 0..(n - 1).
RECURSIVE PostsBelow(_)
PostsBelow(n) == IF n = 0 THEN 0 ELSE PostsBelow(n - 1) + w_posts[n - 1]

\* Every helper launched so far that has exited has exited with 0.
AllExitedZero == \A k \in Procs : w_pc[k] = "exited" => w_status[k] = 0

\* C22: while every helper that has exited has exited with 0, the semaphore
\* holds 0 before the first launch, its count is the posts made less the
\* waits done, the posts number process_count (one per range) when the waits
\* begin, and after process_count waits the count is 0 again as the printing
\* starts.
C22_PostsAndWaits ==
    (AllExitedZero /\ pc \in {"spawn", "system", "wait", "print"}) =>
        /\ sem_count = PostsBelow(MaxPrimeCount) - waited
        /\ (pc = "spawn" /\ launched = 0) => sem_count = 0
        /\ pc \in {"spawn", "system"} => waited = 0
        /\ pc \in {"wait", "print"} =>
             /\ PostsBelow(MaxPrimeCount) = process_count
             /\ \A k \in 0..(process_count - 1) : w_posts[k] = 1
             /\ waited <= process_count
             /\ waited = process_count <=> sem_count = 0
        /\ pc = "wait" => waited = oi
        /\ pc = "print" => (waited = process_count /\ sem_count = 0)

C22_Witness ==
    /\ AllExitedZero
    /\ pc = "print"
    /\ oi = 0
    /\ oj = 0
    /\ process_count = 3
    /\ PostsBelow(MaxPrimeCount) = 3
    /\ waited = 3
    /\ sem_count = 0

\* A step of the orchestrator's own code.
OrchestratorStep ==
    \/ MainStart
    \/ CreateSegment
    \/ CreateSemaphore
    \/ SpawnWorker
    \/ SystemReturn
    \/ AwaitWorker
    \/ PrintPrimes

\* Some helper is running.
HelperRunning == \E k \in Procs : w_pc[k] \in {"main", "loop"}

\* C23: outside its semaphore waits the orchestrator can always take its
\* next step, whatever the helpers are doing.
C23_SuspendsOnlyInWaits ==
    pc \notin {"wait", "done"} => ENABLED OrchestratorStep

\* Where the orchestrator in fact is suspended: in std::system while the
\* helper it launched runs, and nowhere else, the semaphore waits included.
C23_SuspendsOnlyInSystem ==
    /\ (pc = "system" /\ HelperRunning) => ~ENABLED OrchestratorStep
    /\ (pc # "done" /\ ~(pc = "system" /\ HelperRunning)) =>
         ENABLED OrchestratorStep

\* The running helpers.
Running == {k \in Procs : w_pc[k] \in {"main", "loop"}}

WaitsNeverBlock ==
    pc = "wait" =>
        /\ sem_count = process_count - oi
        /\ wait_loop(oi) => sem_count > 0

\* The orchestrator has exited and clean_up has removed both names.
Exited == pc = "done" /\ exit_code \in {0, 1} /\ ~store_exists /\ ~sem_exists

\* C25: in a run of a single instance in which the helpers keep running to
\* their end, no wait of the orchestrator blocks and the orchestrator
\* eventually exits with both names removed.
C25_Terminates == ([]WaitsNeverBlock) /\ <>Exited

C25_Witness ==
    /\ Exited
    /\ exit_code = 0
    /\ process_count = 3
    /\ waited = 3
    /\ launched = 3
    /\ Len(output) = 3

\* The wait loop is entered with every post made.
C25_WaitEntered ==
    /\ pc = "wait"
    /\ oi = 0
    /\ process_count = 2
    /\ sem_count = 2

AlignReturned == call.fn = "align" /\ call.state = "returned"

\* C26: for a power-of-two Alignment and every n of the width of
\* std::size_t, align<Alignment>(n) is a multiple of Alignment, is not less
\* than n, and is less than n + Alignment.
C26_AlignRoundsUp ==
    AlignReturned =>
        /\ call.result % call.Alignment = 0
        /\ call.result >= call.n
        /\ call.result < call.n + call.Alignment

\* The largest multiple of a in the width of std::size_t.
LastBoundary(a) == (UintMax \div a) * a

\* The same for the sizes up to the last multiple of Alignment that
\* std::size_t can hold, where the sum n + (Alignment - 1) does not wrap.
C26_AlignBelowLastBoundary ==
    (AlignReturned /\ call.n <= LastBoundary(call.Alignment)) =>
        /\ call.result % call.Alignment = 0
        /\ call.result >= call.n
        /\ call.result < call.n + call.Alignment

=============================================================================
